---- MODULE Spec2Model ----
(***************************************************************************)
(* The C boundary of the embeddings library (internal/embeddings-ffi):     *)
(* session lifecycle, single and batch encode, buffer release.             *)
(* The tokenizer and the ONNX model are opaque collaborators; each is      *)
(* modelled as a deterministic function fixed by the artifact loaded.      *)
(***************************************************************************)
EXTENDS Integers, Sequences, FiniteSets, TLC

\* ------------------------------------------------------------------ bounds
MaxBatch == 2       \* largest num_texts the host passes
MaxHeld == 1        \* result buffers the host holds before it releases one
SmallDim == 2       \* hidden size of the small test models
MaxProbeLen == 514  \* longest raw token sequence followed through the pipeline
PoolBatch == 3      \* largest num_texts of a batch made while a second thread calls
Scale == 1000       \* fixed-point resolution of the f32 values (1.0 = Scale)

\* --------------------------------------------------------- program constants
embedding_dim == 384
num_threads == 2
MAX_SEQ_LENGTH == 512
BATCH_MAX_SEQ_LENGTH == 512

\* ----------------------------------------------------------------- f32 values
\* An f32 is an integer count of 1/Scale units, or NaN.
NaN == -2000000000
\* 1e-12 is below one unit at this resolution: its fixed-point image is 0.
NORM_EPSILON == 0

FAdd(a, b) == IF a = NaN \/ b = NaN THEN NaN ELSE a + b
FMul(a, b) == IF a = NaN \/ b = NaN THEN NaN ELSE (a * b) \div Scale
\* x / y; the only zero divisor the code meets is 0.0 / 0.0 (an empty sum
\* divided by seq_len = 0), which is NaN.
FDiv(x, y) == IF x = NaN \/ y = NaN \/ y = 0 THEN NaN ELSE (x * Scale) \div y
\* usize as f32
ToF32(n) == n * Scale
\* NaN > e is false
FGreater(a, e) == a # NaN /\ e # NaN /\ a > e

RECURSIVE ISqrtIter(_, _, _)
ISqrtIter(n, lo, hi) ==
    IF lo >= hi THEN lo
    ELSE LET mid == (lo + hi + 1) \div 2
         IN  IF mid * mid <= n THEN ISqrtIter(n, mid, hi)
                               ELSE ISqrtIter(n, lo, mid - 1)
FSqrt(s) == IF s = NaN \/ s < 0 THEN NaN ELSE ISqrtIter(s * Scale, 0, 46340)

\* vec.iter().map(|x| x * x).sum() over the elements lo..hi
RECURSIVE SumSquares(_, _, _)
SumSquares(vec, lo, hi) ==
    IF lo > hi THEN 0
    ELSE IF lo = hi THEN FMul(vec[lo], vec[lo])
    ELSE LET mid == (lo + hi) \div 2
         IN  FAdd(SumSquares(vec, lo, mid), SumSquares(vec, mid + 1, hi))

Norm(vec) == FSqrt(SumSquares(vec, 1, Len(vec)))

normalize_vector(vec) ==
    LET norm == Norm(vec)
    IN  IF FGreater(norm, NORM_EPSILON)
        THEN [k \in 1..Len(vec) |-> FDiv(vec[k], norm)]
        ELSE vec

\* ------------------------------------------------------- C strings, pointers
NullText == [kind |-> "null", s |-> <<>>]
BadUtf8Text == [kind |-> "badutf8", s |-> <<>>]
Str(s) == [kind |-> "str", s |-> s]
\* CStr::to_str
to_str(p) == [ok |-> p.kind = "str", s |-> p.s]

NullHandle == 0
NullBuf == 0
\* the pointer of an empty boxed slice: non-null, nothing allocated behind it
DanglingBuf == -1

\* ------------------------------------------------------------------ tokenizer
\* The tokenizer artifact: one id per character; encode fails on UnkChar.
UnkChar == 3
HasChar(s, c, k) == \E i \in 1..k : s[i] = c

tokenizer_encode(tok, text) ==
    IF tok.strict /\ HasChar(text, UnkChar, Len(text))
    THEN [ok |-> FALSE, ids |-> <<>>, attention_mask |-> <<>>, type_ids |-> <<>>]
    ELSE [ok |-> TRUE,
          ids |-> text,
          attention_mask |-> [k \in 1..Len(text) |-> 1],
          type_ids |-> [k \in 1..Len(text) |-> 0]]

\* ---------------------------------------------------------------------- model
\* What one loaded ONNX graph does: hidden size, rank and element type of its
\* first output, how many sequence positions it emits, which input it rejects.
CellValue(m, id, am, tt, j) ==
    m.gain * ((((id + 1) * (j + 1)) % 7) + am + 2 * tt) * (Scale \div 10)

OutSeq(m, n) == IF m.static_seq >= 0 THEN m.static_seq ELSE n

\* row of the output for position i (positions past the input repeat padding)
OutRow(m, ids, am, tt, i) ==
    [j \in 1..m.hidden |->
        IF i <= Len(ids) THEN CellValue(m, ids[i], am[i], tt[i], j)
                         ELSE CellValue(m, 0, 0, 0, j)]

model_run(m, ids, am, tt) ==
    IF Len(am) # Len(ids) \/ Len(tt) # Len(ids) \/ HasChar(ids, m.fail_tok, Len(ids))
    THEN [ok |-> FALSE, dtype |-> "", shape |-> <<>>, data |-> <<>>]
    ELSE LET s == OutSeq(m, Len(ids))
         IN  IF m.rank = 3
             THEN [ok |-> TRUE, dtype |-> m.dtype, shape |-> <<1, s, m.hidden>>,
                   data |-> [i \in 1..s |-> OutRow(m, ids, am, tt, i)]]
             ELSE [ok |-> TRUE, dtype |-> m.dtype, shape |-> <<1, m.hidden>>,
                   data |-> <<OutRow(m, ids, am, tt, 1)>>]

\* ------------------------------------------------- tensors and mean pooling
\* &s[..n]: panics when n exceeds the length
SliceOk(s, n) == n <= Len(s)
Slice(s, n) == SubSeq(s, 1, n)

\* Array2::from_shape_vec((1, n), v): an error unless v holds 1 * n elements
from_shape_vec(n, v) == [ok |-> Len(v) = n, v |-> v]

\* tensor[[0, i, j]] is in bounds for every i < seq_len, j < dim the loops visit
IndexOk(t, seq_len, dim) ==
    \/ seq_len = 0
    \/ dim = 0
    \/ /\ Len(t.shape) = 3
       /\ t.shape[1] >= 1
       /\ seq_len <= t.shape[2]
       /\ dim <= t.shape[3]

\* pooled[j] += tensor[[0, i, j]] over the rows lo..hi
RECURSIVE ColSum(_, _, _, _)
ColSum(data, j, lo, hi) ==
    IF lo > hi THEN 0
    ELSE IF lo = hi THEN data[lo][j]
    ELSE LET mid == (lo + hi) \div 2
         IN  FAdd(ColSum(data, j, lo, mid), ColSum(data, j, mid + 1, hi))

\* faulty variant: the loop over the positions stops one short
MeanPoolSkipsLast(t, seq_len, dim) ==
    [j \in 1..dim |-> FDiv(ColSum(t.data, j, 1, seq_len - 1), ToF32(seq_len))]

\* the two loops: sum the first seq_len rows, then divide by seq_len
MeanPool(t, seq_len, dim) ==
    [j \in 1..dim |-> FDiv(ColSum(t.data, j, 1, seq_len), ToF32(seq_len))]

Ok(v) == [kind |-> "ok", vec |-> v]
Err == [kind |-> "err", vec |-> <<>>]
Panic == [kind |-> "panic", vec |-> <<>>]

\* ---------------------------------------- embeddings_encode, after the null checks
\* lines 172-194: to_array_view::<f32>(), shape[1], shape[2], pooling
ExtractSingle(outputs) ==
    IF outputs.dtype # "f32" THEN Err
    ELSE IF Len(outputs.shape) < 3 THEN Panic
    ELSE LET seq_len == outputs.shape[2]
             dim == outputs.shape[3]
         IN  IF ~IndexOk(outputs, seq_len, dim) THEN Panic
             ELSE Ok(MeanPool(outputs, seq_len, dim))

\* faulty variant: the truncation keeps the tail of the sequence
TruncateSingleKeepsTail(raw_len, s) ==
    IF raw_len > MAX_SEQ_LENGTH
    THEN [ok |-> SliceOk(s, MAX_SEQ_LENGTH),
          v |-> SubSeq(s, raw_len - MAX_SEQ_LENGTH + 1, raw_len)]
    ELSE [ok |-> TRUE, v |-> s]

\* lines 129-140: keep the first MAX_SEQ_LENGTH elements of a raw sequence
TruncateSingle(raw_len, s) ==
    IF raw_len > MAX_SEQ_LENGTH
    THEN [ok |-> SliceOk(s, MAX_SEQ_LENGTH), v |-> Slice(s, MAX_SEQ_LENGTH)]
    ELSE [ok |-> TRUE, v |-> s]

\* lines 129-156: the three sequences as they are handed to the model
SingleInputs(encoding) ==
    LET raw_len == Len(encoding.ids)
        input_ids == TruncateSingle(raw_len, encoding.ids)
        attention_mask == TruncateSingle(raw_len, encoding.attention_mask)
        token_type_ids == TruncateSingle(raw_len, encoding.type_ids)
    IN  IF ~(input_ids.ok /\ attention_mask.ok /\ token_type_ids.ok)
        THEN [ok |-> FALSE, ids |-> <<>>, attention_mask |-> <<>>, type_ids |-> <<>>]
        ELSE
        LET a1 == from_shape_vec(Len(input_ids.v), input_ids.v)
            a2 == from_shape_vec(Len(attention_mask.v), attention_mask.v)
            a3 == from_shape_vec(Len(token_type_ids.v), token_type_ids.v)
        IN  [ok |-> a1.ok /\ a2.ok /\ a3.ok,
             ids |-> a1.v, attention_mask |-> a2.v, type_ids |-> a3.v]

\* lines 121-194: the pooled vector, before normalize_vector
PoolSingle(h, text) ==
    LET encoding == tokenizer_encode(h.tokenizer, text)
    IN  IF ~encoding.ok THEN Err
        ELSE
        LET inputs == SingleInputs(encoding)
        IN  IF ~inputs.ok THEN Panic
            ELSE
            LET outputs == model_run(h.model, inputs.ids, inputs.attention_mask,
                                     inputs.type_ids)
            IN  IF ~outputs.ok THEN Err ELSE ExtractSingle(outputs)

EncodeSingle(h, text) ==
    LET pooled == PoolSingle(h, text)
    IN  IF pooled.kind = "ok" THEN Ok(normalize_vector(pooled.vec)) ELSE pooled

\* ------------------------------- embeddings_encode_batch: the closure run per item
\* lines 294-308: to_array_view::<f32>(), shape[2], pooling over the input's seq_len
ExtractBatch(outputs, seq_len) ==
    IF outputs.dtype # "f32" THEN Err
    ELSE IF Len(outputs.shape) < 3 THEN Panic
    ELSE LET dim == outputs.shape[3]
         IN  IF ~IndexOk(outputs, seq_len, dim) THEN Panic
             ELSE Ok(MeanPool(outputs, seq_len, dim))

Min(a, b) == IF a < b THEN a ELSE b

\* lines 260-280: the three sequences as they are handed to the model
BatchInputs(encoding) ==
    LET seq_len == Min(Len(encoding.ids), BATCH_MAX_SEQ_LENGTH)
    IN  IF ~(SliceOk(encoding.attention_mask, seq_len)
             /\ SliceOk(encoding.type_ids, seq_len))
        THEN [ok |-> FALSE, seq_len |-> seq_len,
              ids |-> <<>>, attention_mask |-> <<>>, type_ids |-> <<>>]
        ELSE
        LET a1 == from_shape_vec(seq_len, Slice(encoding.ids, seq_len))
            a2 == from_shape_vec(seq_len, Slice(encoding.attention_mask, seq_len))
            a3 == from_shape_vec(seq_len, Slice(encoding.type_ids, seq_len))
        IN  [ok |-> a1.ok /\ a2.ok /\ a3.ok, seq_len |-> seq_len,
             ids |-> a1.v, attention_mask |-> a2.v, type_ids |-> a3.v]

\* lines 254-308: the pooled vector, before normalize_vector
PoolItem(h, text) ==
    LET encoding == tokenizer_encode(h.tokenizer, text)
    IN  IF ~encoding.ok THEN Err
        ELSE
        LET inputs == BatchInputs(encoding)
        IN  IF ~inputs.ok THEN Panic
            ELSE
            LET outputs == model_run(h.model, inputs.ids, inputs.attention_mask,
                                     inputs.type_ids)
            IN  IF ~outputs.ok THEN Err ELSE ExtractBatch(outputs, inputs.seq_len)

EncodeItem(h, text) ==
    LET pooled == PoolItem(h, text)
    IN  IF pooled.kind = "ok" THEN Ok(normalize_vector(pooled.vec)) ELSE pooled

\* ------------------------------------------------------------------ artifacts
\* Paths are short strings; what a path holds decides what loading it gives.
GoodTokenizerPath == Str(<<9>>)
MissingPath == Str(<<0>>)

TheTokenizer == [strict |-> TRUE]
NoTokenizer == [strict |-> FALSE]

ModelOf(hidden, rank, dtype, static_seq, fail_tok, gain) ==
    [hidden |-> hidden, rank |-> rank, dtype |-> dtype,
     static_seq |-> static_seq, fail_tok |-> fail_tok, gain |-> gain]
NoModel == ModelOf(0, 0, "", -1, -1, 0)

\* The model files the host may name, by what the graph in them does:
\*  1 BGE-small (hidden 384)       2 a small encoder (hidden SmallDim)
\*  3 a graph whose first output is already pooled, shape (1, hidden)
\*  4 a graph whose first output is not f32
\*  5 a graph that emits two sequence positions whatever the input length
\*  6 a graph whose run fails on inputs that hold token 2
\*  7 a graph with hidden size 0    8 a graph whose output is all zeros
ModelKinds ==
    <<ModelOf(embedding_dim, 3, "f32", -1, -1, 1),
      ModelOf(SmallDim, 3, "f32", -1, -1, 1),
      ModelOf(SmallDim, 2, "f32", -1, -1, 1),
      ModelOf(SmallDim, 3, "i64", -1, -1, 1),
      ModelOf(SmallDim, 3, "f32", 2, -1, 1),
      ModelOf(SmallDim, 3, "f32", -1, 2, 1),
      ModelOf(0, 3, "f32", -1, -1, 1),
      ModelOf(SmallDim, 3, "f32", -1, -1, 0)>>

ModelPaths == {Str(<<k>>) : k \in 1..Len(ModelKinds)}

\* Tokenizer::from_file
tokenizer_from_file(path) ==
    IF path = GoodTokenizerPath.s THEN [ok |-> TRUE, t |-> TheTokenizer]
                                  ELSE [ok |-> FALSE, t |-> NoTokenizer]

\* onnx().model_for_path(..).into_optimized().into_runnable()
model_for_path(path) ==
    IF Len(path) = 1 /\ path[1] \in 1..Len(ModelKinds)
    THEN [ok |-> TRUE, m |-> ModelKinds[path[1]]]
    ELSE [ok |-> FALSE, m |-> NoModel]

\* ------------------------------------------------------------------- inputs
PathArgs == {NullText, BadUtf8Text, MissingPath, GoodTokenizerPath} \cup ModelPaths
TextPtrs == {NullText, BadUtf8Text, Str(<<>>), Str(<<1>>), Str(<<1, 2>>), Str(<<UnkChar>>)}
\* the pointers the host puts into a texts array
BatchPtrs == TextPtrs \ {Str(<<>>)}
\* the one address a session box is allocated at
HandleAddrs == {1}
BufAddrs == 1..MaxHeld

RECURSIVE SeqsUpTo(_, _)
SeqsUpTo(S, n) ==
    IF n = 0 THEN {<<>>}
    ELSE LET shorter == SeqsUpTo(S, n - 1)
         IN  shorter \cup {Append(q, x) : q \in {r \in shorter : Len(r) = n - 1}, x \in S}
TextArrays == SeqsUpTo(BatchPtrs, MaxBatch)

\* -------------------------------------------------------------------- state
VARIABLES
    sessions,   \* handle address -> the EmbeddingsHandle boxed there
    res,        \* what the library has allocated: tokenizers, models, pools, threads, boxes
    heap,       \* buffer address -> length of the live f32 buffer there (0: free)
    held,       \* the (pointer, length) pairs the host was handed and has not released
    batch,      \* the embeddings_encode_batch call in flight
    last,       \* the call in progress or just returned, as the host sees it
    side,       \* the call of a second host thread, made while the first is in a call
    probe       \* one request followed stage by stage through the encode pipeline

vars == <<sessions, res, heap, held, batch, last, side, probe>>

NoSession ==
    [live |-> FALSE, tokenizer |-> NoTokenizer, model |-> NoModel,
     pool |-> 0, embedding_dim |-> 0]

NoRes == [tokenizers |-> 0, models |-> 0, pools |-> 0, threads |-> 0, boxes |-> 0]

Pending == [st |-> "pending", kind |-> "", vec |-> <<>>]
NoBatch == [active |-> FALSE, handle |-> NullHandle, strings |-> <<>>, items |-> <<>>]

\* The host's view of a call. status: "none", "running", "returned", "panic".
\* ret: the return value (a bool as 0/1, a handle, a dimension).
\* ptr_written/len_written: whether *embeddings_out / *len_out were stored to.
NoCall ==
    [op |-> "", status |-> "none", handle |-> NullHandle, args |-> <<>>,
     args_null |-> FALSE, out_null |-> FALSE, len_null |-> FALSE, pool_ok |-> FALSE,
     free_ptr |-> NullBuf, free_len |-> 0, ret |-> 0,
     ptr_written |-> FALSE, ptr |-> NullBuf, len_written |-> FALSE, len |-> 0,
     data |-> <<>>, results |-> <<>>]

\* A request in the pipeline. stage: "none", "text", "inputs", "pooled", "done".
NoProbe ==
    [stage |-> "none", path |-> "", model |-> 0, text |-> <<>>, ok |-> TRUE,
     seq_len |-> 0, ids |-> <<>>, attention_mask |-> <<>>, type_ids |-> <<>>,
     kind |-> "", pooled |-> <<>>, vec |-> <<>>]

Call(op, handle, args) ==
    [NoCall EXCEPT !.op = op, !.status = "returned", !.handle = handle, !.args = args]

Init ==
    /\ sessions = [a \in HandleAddrs |-> NoSession]
    /\ res = NoRes
    /\ heap = [a \in BufAddrs |-> 0]
    /\ held = {}
    /\ batch = NoBatch
    /\ last = NoCall
    /\ side = NoCall
    /\ probe = NoProbe

\* the host thread is free to make a call: nothing in flight, the previous
\* return value taken, the process alive
Idle == ~batch.active /\ last.status = "none"

LiveHandles == {a \in HandleAddrs : sessions[a].live}

\* ---------------------------------------------------------- embeddings_init
\* faulty variant: an early return that leaks what was loaded before it
KeepLocals(acquired) == acquired

\* The locals an early return drops: nothing of them stays allocated.
DropLocals(acquired) == NoRes

AddRes(r, d) ==
    [tokenizers |-> r.tokenizers + d.tokenizers, models |-> r.models + d.models,
     pools |-> r.pools + d.pools, threads |-> r.threads + d.threads,
     boxes |-> r.boxes + d.boxes]
SubRes(r, d) ==
    [tokenizers |-> r.tokenizers - d.tokenizers, models |-> r.models - d.models,
     pools |-> r.pools - d.pools, threads |-> r.threads - d.threads,
     boxes |-> r.boxes - d.boxes]

OneTokenizer == [NoRes EXCEPT !.tokenizers = 1]
OneModel == [NoRes EXCEPT !.models = 1]
OnePool == [NoRes EXCEPT !.pools = 1, !.threads = num_threads]
OneBox == [NoRes EXCEPT !.boxes = 1]

\* What the session owns: everything Box::new(EmbeddingsHandle {..}) moved into it.
Owned(session) ==
    [tokenizers |-> 1, models |-> 1, pools |-> 1, threads |-> session.pool, boxes |-> 1]

\* The body of embeddings_init: [ok, session, kept] where kept is what the call
\* leaves allocated when it returns.
InitOutcome(model_path, tokenizer_path, pool_ok) ==
    LET failed(acquired) == [ok |-> FALSE, session |-> NoSession, kept |-> DropLocals(acquired)]
    IN
    IF model_path.kind = "null" \/ tokenizer_path.kind = "null" THEN failed(NoRes)
    ELSE IF ~to_str(model_path).ok THEN failed(NoRes)
    ELSE IF ~to_str(tokenizer_path).ok THEN failed(NoRes)
    ELSE
    LET tokenizer == tokenizer_from_file(tokenizer_path.s)
    IN  IF ~tokenizer.ok THEN failed(NoRes)
        ELSE
        LET model == model_for_path(model_path.s)
        IN  IF ~model.ok THEN failed(OneTokenizer)
            ELSE IF ~pool_ok THEN failed(AddRes(OneTokenizer, OneModel))
            ELSE [ok |-> TRUE,
                  session |-> [live |-> TRUE, tokenizer |-> tokenizer.t, model |-> model.m,
                               pool |-> num_threads, embedding_dim |-> embedding_dim],
                  kept |-> AddRes(AddRes(OneTokenizer, OneModel), AddRes(OnePool, OneBox))]

\* (the host opens a session only while it holds no result buffer)
embeddings_init(model_path, tokenizer_path, pool_ok) ==
    /\ Idle
    /\ held = {}
    /\ \E a \in HandleAddrs :
        /\ ~sessions[a].live
        /\ LET o == InitOutcome(model_path, tokenizer_path, pool_ok)
           IN  /\ sessions' = IF o.ok THEN [sessions EXCEPT ![a] = o.session] ELSE sessions
               /\ res' = AddRes(res, o.kept)
               /\ last' = [Call("init", NullHandle, <<model_path, tokenizer_path>>)
                              EXCEPT !.pool_ok = pool_ok,
                                     !.ret = IF o.ok THEN a ELSE NullHandle]
    /\ UNCHANGED <<heap, held, batch>>
    /\ UNCHANGED <<side, probe>>

\* ---------------------------------------------------------- embeddings_free
\* faulty variant: the drop leaves the thread pool running
DropHandleKeepsPool(session) == [Owned(session) EXCEPT !.pools = 0, !.threads = 0]

\* Box::from_raw(handle) dropped: the box and every field of it are released.
DropHandle(session) == Owned(session)

embeddings_free(handle) ==
    /\ Idle
    /\ handle \in LiveHandles \cup {NullHandle}
    /\ IF handle # NullHandle
       THEN /\ res' = SubRes(res, DropHandle(sessions[handle]))
            /\ sessions' = [sessions EXCEPT ![handle] = NoSession]
       ELSE UNCHANGED <<res, sessions>>
    /\ last' = Call("free", handle, <<>>)
    /\ UNCHANGED <<heap, held, batch>>
    /\ UNCHANGED <<side, probe>>

\* ------------------------------------------------- embeddings_get_dimension
\* faulty variant: the dimension is read from the loaded model
get_dimension_of_model(handle) ==
    /\ Idle
    /\ handle \in LiveHandles \cup {NullHandle}
    /\ last' = [Call("get_dimension", handle, <<>>)
                   EXCEPT !.ret = IF handle = NullHandle THEN 0
                                  ELSE sessions[handle].model.hidden]
    /\ UNCHANGED <<sessions, res, heap, held, batch>>
    /\ UNCHANGED <<side, probe>>

embeddings_get_dimension(handle) ==
    /\ Idle
    /\ handle \in LiveHandles \cup {NullHandle}
    /\ last' = [Call("get_dimension", handle, <<>>)
                   EXCEPT !.ret = IF handle = NullHandle THEN 0
                                  ELSE sessions[handle].embedding_dim]
    /\ UNCHANGED <<sessions, res, heap, held, batch>>
    /\ UNCHANGED <<side, probe>>

\* --------------------------------------------------------- result buffers
FreeAddrs == {a \in DOMAIN heap : heap[a] = 0}
Lowest(S) == CHOOSE a \in S : \A b \in S : a <= b

\* into_boxed_slice + as_mut_ptr + forget: the vector's storage, exactly len
\* floats, is left allocated; an empty vector has no storage.
AllocBuffer(h, len) ==
    IF len = 0 THEN [ptr |-> DanglingBuf, heap |-> h]
    ELSE LET a == Lowest({x \in DOMAIN h : h[x] = 0})
         IN  [ptr |-> a, heap |-> [h EXCEPT ![a] = len]]

\* faulty variant: the release forgets the buffer instead of dropping it
FreeBufferLeaks(h, embeddings, len) == h

\* faulty variant: the guard without its length test
FreeBufferNoLenGuard(h, embeddings, len) ==
    IF embeddings # NullBuf
    THEN [a \in DOMAIN h |-> IF a = embeddings THEN 0 ELSE h[a]]
    ELSE h

\* Vec::from_raw_parts(embeddings, len, len) dropped, when the guard lets it
FreeBuffer(h, embeddings, len) ==
    IF embeddings # NullBuf /\ len > 0 THEN [h EXCEPT ![embeddings] = 0] ELSE h

\* the call returns true through its out-parameters
ReturnBuffer(call, vec) ==
    LET b == AllocBuffer(heap, Len(vec))
    IN  /\ heap' = b.heap
        /\ held' = held \cup {[ptr |-> b.ptr, len |-> Len(vec)]}
        /\ last' = [call EXCEPT !.status = "returned", !.ret = 1,
                                !.ptr_written = TRUE, !.ptr = b.ptr,
                                !.len_written = TRUE, !.len = Len(vec),
                                !.data = vec]

ReturnFalse(call) ==
    /\ last' = [call EXCEPT !.status = "returned", !.ret = 0]
    /\ UNCHANGED <<heap, held>>

\* a panic leaves the extern "C" function by unwinding: the process aborts
Abort(call) ==
    /\ last' = [call EXCEPT !.status = "panic"]
    /\ UNCHANGED <<heap, held>>

\* -------------------------------------------------------- embeddings_encode
embeddings_encode(handle, text, out_null, len_null) ==
    /\ Idle
    /\ FreeAddrs # {}
    /\ handle \in LiveHandles \cup {NullHandle}
    /\ LET call == [Call("encode", handle, <<text>>)
                       EXCEPT !.out_null = out_null, !.len_null = len_null]
       IN  IF handle = NullHandle \/ text.kind = "null" \/ out_null \/ len_null
           THEN ReturnFalse(call)
           ELSE IF ~to_str(text).ok THEN ReturnFalse(call)
           ELSE LET o == EncodeSingle(sessions[handle], to_str(text).s)
                IN  CASE o.kind = "ok" -> ReturnBuffer(call, o.vec)
                      [] o.kind = "err" -> ReturnFalse(call)
                      [] o.kind = "panic" -> Abort(call)
    /\ UNCHANGED <<sessions, res, batch>>
    /\ UNCHANGED <<side, probe>>

\* --------------------------------------------------- embeddings_free_result
\* The host passes a pair it holds, or the same pointer with length 0, or null.
NullBufArgs == {[ptr |-> NullBuf, len |-> 0], [ptr |-> NullBuf, len |-> 1]}
embeddings_free_result(b, zero_len) ==
    /\ Idle
    /\ b \in held \cup NullBufArgs
    /\ LET len == IF zero_len THEN 0 ELSE b.len
       IN  /\ heap' = FreeBuffer(heap, b.ptr, len)
           /\ held' = IF len = b.len THEN held \ {b} ELSE held
           /\ last' = [Call("free_result", NullHandle, <<>>)
                          EXCEPT !.free_ptr = b.ptr, !.free_len = len]
    /\ UNCHANGED <<sessions, res, batch>>
    /\ UNCHANGED <<side, probe>>

\* -------------------------------------------------- embeddings_encode_batch
\* faulty variant: the conversion loop without its null check
AllValidSkipsNull(texts, k) == \A i \in 1..k : texts[i].kind # "badutf8"

\* faulty variant: the conversion loop stops after the first pointer
AllValidChecksFirst(texts, k) == k = 0 \/ to_str(texts[1]).ok

\* lines 229-244: every pointer of the array is non-null and valid UTF-8
RECURSIVE AllValid(_, _)
AllValid(texts, k) == IF k = 0 THEN TRUE ELSE AllValid(texts, k - 1) /\ to_str(texts[k]).ok

\* the call up to pool.install: the null checks, the conversion loop, the dispatch
embeddings_encode_batch(handle, texts, texts_null, out_null, len_null) ==
    /\ Idle
    /\ FreeAddrs # {}
    /\ handle \in LiveHandles \cup {NullHandle}
    \* a null array has no elements; a call that passes a null pointer passes
    \* at most one text
    /\ texts_null => texts = <<>>
    /\ (handle = NullHandle \/ out_null \/ len_null) => Len(texts) <= 1
    /\ LET call == [Call("encode_batch", handle, texts)
                       EXCEPT !.args_null = texts_null, !.out_null = out_null,
                              !.len_null = len_null]
       IN  IF handle = NullHandle \/ texts_null \/ out_null \/ len_null
           THEN ReturnFalse(call) /\ UNCHANGED batch
           ELSE IF ~AllValid(texts, Len(texts))
           THEN ReturnFalse(call) /\ UNCHANGED batch
           ELSE /\ batch' = [active |-> TRUE, handle |-> handle,
                             strings |-> [k \in 1..Len(texts) |-> to_str(texts[k]).s],
                             items |-> [k \in 1..Len(texts) |-> Pending]]
                /\ last' = [call EXCEPT !.status = "running"]
                /\ UNCHANGED <<heap, held>>
    /\ UNCHANGED <<sessions, res>>
    /\ UNCHANGED <<side, probe>>

Running == {k \in 1..Len(batch.items) : batch.items[k].st = "running"}

\* faulty variant: an item is started whether or not a pool thread is free
WorkerStartNoLimit(k) ==
    /\ batch.active
    /\ k \in 1..Len(batch.items)
    /\ batch.items[k].st = "pending"
    /\ batch' = [batch EXCEPT !.items[k].st = "running"]
    /\ UNCHANGED <<sessions, res, heap, held, last>>
    /\ UNCHANGED <<side, probe>>

\* a pool thread that has nothing to do takes an item of the parallel iterator
WorkerStart(k) ==
    /\ batch.active
    /\ k \in 1..Len(batch.items)
    /\ batch.items[k].st = "pending"
    /\ Cardinality(Running) < sessions[batch.handle].pool
    /\ batch' = [batch EXCEPT !.items[k].st = "running"]
    /\ UNCHANGED <<sessions, res, heap, held, last>>
    /\ UNCHANGED <<side, probe>>

\* collect() of an indexed parallel iterator: the result of item k lands in slot k
CollectSlot(items, k) == k

\* faulty variant: the closure records the width it saw in the session
WorkerFinishWritesSession(k) ==
    /\ batch.active
    /\ k \in 1..Len(batch.items)
    /\ batch.items[k].st = "running"
    /\ LET o == EncodeItem(sessions[batch.handle], batch.strings[k])
           slot == CollectSlot(batch.items, k)
       IN  /\ batch' = [batch EXCEPT !.items[k].st = "done",
                                     !.items[slot].kind = o.kind,
                                     !.items[slot].vec = o.vec]
           /\ sessions' = [sessions EXCEPT ![batch.handle].embedding_dim = Len(o.vec)]
    /\ UNCHANGED <<res, heap, held, last>>
    /\ UNCHANGED <<side, probe>>

\* the thread finishes the closure for its item
WorkerFinish(k) ==
    /\ batch.active
    /\ k \in 1..Len(batch.items)
    /\ batch.items[k].st = "running"
    /\ LET o == EncodeItem(sessions[batch.handle], batch.strings[k])
           slot == CollectSlot(batch.items, k)
       IN  batch' = [batch EXCEPT !.items[k].st = "done",
                                  !.items[slot].kind = o.kind,
                                  !.items[slot].vec = o.vec]
    /\ UNCHANGED <<sessions, res, heap, held, last>>
    /\ UNCHANGED <<side, probe>>

RECURSIVE Concat(_, _)
Concat(items, k) == IF k = 0 THEN <<>> ELSE Concat(items, k - 1) \o items[k].vec

\* lines 326-335: extend all_embeddings in index order, stop at the first Err
HasKind(items, kind) == \E k \in 1..Len(items) : items[k].kind = kind

\* faulty variant: the wait ends as soon as one item has failed
DoneOrFailed(items) ==
    \/ \A k \in 1..Len(items) : items[k].st = "done"
    \/ \E k \in 1..Len(items) : items[k].st = "done" /\ items[k].kind = "err"

\* collect() has a result for every item: pool.install returns only then
AllDone(items) == \A k \in 1..Len(items) : items[k].st = "done"

\* faulty variant: the check for an empty result is gone
is_empty_never(v) == FALSE

\* all_embeddings.is_empty(), line 337
is_empty(v) == Len(v) = 0

\* pool.install returns once every item is done; lines 321-352
BatchCollect ==
    /\ batch.active
    /\ AllDone(batch.items)
    /\ LET results == [k \in 1..Len(batch.items) |->
                          [kind |-> batch.items[k].kind, vec |-> batch.items[k].vec]]
           call == [last EXCEPT !.results = results]
           all_embeddings == Concat(batch.items, Len(batch.items))
       IN  IF HasKind(batch.items, "panic") THEN Abort(call)
           ELSE IF HasKind(batch.items, "err") THEN ReturnFalse(call)
           ELSE IF is_empty(all_embeddings) THEN ReturnFalse(call)
           ELSE ReturnBuffer(call, all_embeddings)
    /\ batch' = NoBatch
    /\ UNCHANGED <<sessions, res>>
    /\ UNCHANGED <<side, probe>>

\* the host takes the return value and the out-parameters of the call
HostContinues ==
    /\ last.status = "returned"
    /\ last' = NoCall
    /\ UNCHANGED <<sessions, res, heap, held, batch>>
    /\ UNCHANGED <<side, probe>>

\* ------------------------------------------------------------ specification
\* the arguments the host may pass now: none while it is inside a call
HostArgs(S) == IF Idle THEN S ELSE {}
HandleArgs == HostArgs(HandleAddrs \cup {NullHandle})

Next ==
    \/ \E mp \in HostArgs(PathArgs), tp \in PathArgs, pool_ok \in BOOLEAN :
          embeddings_init(mp, tp, pool_ok)
    \/ \E h \in HandleArgs : embeddings_free(h)
    \/ \E h \in HandleArgs : embeddings_get_dimension(h)
    \/ \E h \in HandleArgs, t \in TextPtrs, on \in BOOLEAN, ln \in BOOLEAN :
          embeddings_encode(h, t, on, ln)
    \/ \E h \in HandleArgs, ts \in TextArrays,
          tn \in BOOLEAN, on \in BOOLEAN, ln \in BOOLEAN :
          embeddings_encode_batch(h, ts, tn, on, ln)
    \/ \E b \in HostArgs(held \cup NullBufArgs), z \in BOOLEAN :
          embeddings_free_result(b, z)
    \/ \E k \in 1..MaxBatch : WorkerStart(k)
    \/ \E k \in 1..MaxBatch : WorkerFinish(k)
    \/ BatchCollect
    \/ HostContinues

Spec == Init /\ [][Next]_vars

\* ------------------------------------------- the encode pipeline, stage by stage
\* One request of n tokens followed through tokenize, truncate, run, pool and
\* normalize on either path, for raw lengths on both sides of MAX_SEQ_LENGTH.
\* The tokens of the text are pairwise different.
ProbeText(n) == [k \in 1..n |-> k + UnkChar]
\* the models a request is followed on: the small encoder, the graph that emits
\* two positions, the graph whose output is all zeros
ProbeModels == {2, 5, 8}
ProbePaths == {"single", "batch"}

ProbeInit ==
    /\ sessions = [a \in HandleAddrs |-> NoSession]
    /\ res = NoRes
    /\ heap = [a \in BufAddrs |-> 0]
    /\ held = {}
    /\ batch = NoBatch
    /\ last = NoCall
    /\ side = NoCall
    /\ probe \in {[NoProbe EXCEPT !.stage = "text", !.text = ProbeText(n), !.model = m] :
                      n \in 0..MaxProbeLen, m \in ProbeModels}

\* handle.tokenizer.encode and the truncation: lines 121-156 and 254-280
ProbeInputs(path) ==
    /\ probe.stage = "text"
    /\ LET encoding == tokenizer_encode(TheTokenizer, probe.text)
           inputs == IF path = "single"
                     THEN SingleInputs(encoding)
                     ELSE BatchInputs(encoding)
       IN  /\ encoding.ok
           /\ probe' = [probe EXCEPT !.stage = "inputs", !.path = path,
                                     !.ok = inputs.ok,
                                     !.seq_len = IF path = "single" THEN 0
                                                 ELSE inputs.seq_len,
                                     !.ids = inputs.ids,
                                     !.attention_mask = inputs.attention_mask,
                                     !.type_ids = inputs.type_ids]
    /\ UNCHANGED <<sessions, res, heap, held, batch, last, side>>

\* handle.model.run and the pooling: lines 159-194 and 286-308
ProbePool ==
    /\ probe.stage = "inputs"
    /\ probe.ok
    /\ LET outputs == model_run(ModelKinds[probe.model], probe.ids,
                                probe.attention_mask, probe.type_ids)
           pooled == IF ~outputs.ok THEN Err
                     ELSE IF probe.path = "single" THEN ExtractSingle(outputs)
                     ELSE ExtractBatch(outputs, probe.seq_len)
       IN  probe' = [probe EXCEPT !.stage = "pooled", !.kind = pooled.kind,
                                  !.pooled = pooled.vec]
    /\ UNCHANGED <<sessions, res, heap, held, batch, last, side>>

\* normalize_vector(&mut pooled): lines 197 and 311
ProbeNormalize ==
    /\ probe.stage = "pooled"
    /\ probe.kind = "ok"
    /\ probe' = [probe EXCEPT !.stage = "done", !.vec = normalize_vector(probe.pooled)]
    /\ UNCHANGED <<sessions, res, heap, held, batch, last, side>>

ProbeNext ==
    \/ \E path \in ProbePaths : ProbeInputs(path)
    \/ ProbePool
    \/ ProbeNormalize

PipelineSpec == ProbeInit /\ [][ProbeNext]_vars

\* ------------------------------------- two host threads on one live session
\* The first thread makes batch calls of up to PoolBatch valid texts; a second
\* thread calls embeddings_encode on the same session at any moment, also while
\* a batch is on the pool, and releases what it was handed.
PoolModelPaths == {Str(<<2>>), Str(<<3>>), Str(<<6>>)}
PoolTexts == {Str(<<1>>), Str(<<UnkChar>>)}
PoolTextArrays == SeqsUpTo(PoolTexts, PoolBatch)
SideTexts == {Str(<<1>>), Str(<<1, 2>>)}

\* the process has not aborted
Alive == last.status # "panic" /\ side.status # "panic"

PoolInit ==
    /\ sessions = [a \in HandleAddrs |-> NoSession]
    /\ res = NoRes
    /\ heap = [a \in 1..(MaxHeld + 1) |-> 0]
    /\ held = {}
    /\ batch = NoBatch
    /\ last = NoCall
    /\ side = NoCall
    /\ probe = NoProbe

SidePair == IF side.ptr_written THEN {[ptr |-> side.ptr, len |-> side.len]} ELSE {}

\* embeddings_encode called by the second thread (lines 103-211). It leaves a
\* free address for the batch in flight on the first thread.
SideEncode(handle, text) ==
    /\ side.status = "none"
    /\ handle \in LiveHandles
    /\ Cardinality(FreeAddrs) > (IF last.status = "running" THEN 1 ELSE 0)
    /\ LET call == Call("encode", handle, <<text>>)
           o == IF to_str(text).ok THEN EncodeSingle(sessions[handle], to_str(text).s)
                                   ELSE Err
           b == AllocBuffer(heap, Len(o.vec))
       IN  CASE o.kind = "ok" ->
                   /\ heap' = b.heap
                   /\ held' = held \cup {[ptr |-> b.ptr, len |-> Len(o.vec)]}
                   /\ side' = [call EXCEPT !.ret = 1, !.ptr_written = TRUE, !.ptr = b.ptr,
                                           !.len_written = TRUE, !.len = Len(o.vec),
                                           !.data = o.vec]
             [] o.kind = "err" ->
                   /\ side' = [call EXCEPT !.ret = 0]
                   /\ UNCHANGED <<heap, held>>
             [] o.kind = "panic" ->
                   /\ side' = [call EXCEPT !.status = "panic"]
                   /\ UNCHANGED <<heap, held>>
    /\ UNCHANGED <<sessions, res, batch, last, probe>>

\* embeddings_free_result called by the second thread with the pair it was handed
SideFreeResult ==
    /\ side.status = "returned"
    /\ side.ret = 1
    /\ heap' = FreeBuffer(heap, side.ptr, side.len)
    /\ held' = held \ SidePair
    /\ side' = NoCall
    /\ UNCHANGED <<sessions, res, batch, last, probe>>

\* the second thread takes a false return value
SideContinues ==
    /\ side.status = "returned"
    /\ side.ret = 0
    /\ side' = NoCall
    /\ UNCHANGED <<sessions, res, heap, held, batch, last, probe>>

PoolNext ==
    \/ \E mp \in HostArgs(PoolModelPaths) :
          Alive /\ embeddings_init(mp, GoodTokenizerPath, TRUE)
    \/ \E h \in HostArgs(LiveHandles), ts \in PoolTextArrays :
          Alive /\ embeddings_encode_batch(h, ts, FALSE, FALSE, FALSE)
    \/ \E b \in HostArgs(held \ SidePair) :
          Alive /\ embeddings_free_result(b, FALSE)
    \/ \E k \in 1..PoolBatch : Alive /\ WorkerStart(k)
    \/ \E k \in 1..PoolBatch : Alive /\ WorkerFinish(k)
    \/ Alive /\ BatchCollect
    \/ Alive /\ HostContinues
    \/ \E h \in LiveHandles, t \in SideTexts : Alive /\ SideEncode(h, t)
    \/ Alive /\ SideFreeResult
    \/ Alive /\ SideContinues

PoolSpec == PoolInit /\ [][PoolNext]_vars

\* a pool thread is inside the closure for item k
CanFinish(k) ==
    batch.active /\ k \in 1..Len(batch.items) /\ batch.items[k].st = "running"

\* The pool's threads keep running and pool.install returns when they are done:
\* weak fairness of every worker step and of the collection. For WorkerFinish(k)
\* the formula WF_vars(Alive /\ WorkerFinish(k)) is written out, with
\* Alive /\ CanFinish(k) for ENABLED <<Alive /\ WorkerFinish(k)>>_vars: the step
\* is possible exactly then and always changes the item's st.
PoolFairness ==
    /\ \A k \in 1..PoolBatch : WF_vars(Alive /\ WorkerStart(k))
    /\ \A k \in 1..PoolBatch :
          \/ []<>~(Alive /\ CanFinish(k))
          \/ []<><<Alive /\ WorkerFinish(k)>>_vars
    /\ WF_vars(Alive /\ BatchCollect)

FairPoolSpec == PoolSpec /\ PoolFairness

\* ------------------------------------------------------------------ claims
Returned(op) == last.op = op /\ last.status = "returned"
Ended(op) == last.op = op /\ last.status \in {"returned", "panic"}
NoWrites == ~last.ptr_written /\ ~last.len_written
\* the strings of the last call's text pointers
LastStrings == [k \in 1..Len(last.args) |-> to_str(last.args[k]).s]
LastSession == sessions[last.handle]
HasNullText(texts) == \E k \in 1..Len(texts) : texts[k].kind = "null"

\* C1: when embeddings_encode_batch returns true, floats
\* [i*embedding_dim, (i+1)*embedding_dim) of the buffer are the vector computed
\* from texts[i], for every i, whatever order the workers finished in.
C1_RowsAtEmbeddingDim ==
    (Returned("encode_batch") /\ last.ret = 1) =>
        \A i \in 1..Len(last.args) :
            LET v == EncodeItem(LastSession, LastStrings[i])
            IN  /\ v.kind = "ok"
                /\ Len(v.vec) = LastSession.embedding_dim
                /\ i * LastSession.embedding_dim <= Len(last.data)
                /\ \A j \in 1..LastSession.embedding_dim :
                      last.data[(i - 1) * LastSession.embedding_dim + j] = v.vec[j]

\* What the code does keep of C1: the rows are in input order, each as wide as
\* its own vector (the model's hidden size), whatever order the workers finished in.
RECURSIVE ConcatVecs(_, _, _)
ConcatVecs(f(_), n, k) == IF k > n THEN <<>> ELSE f(k) \o ConcatVecs(f, n, k + 1)
BatchRowsInInputOrder ==
    (Returned("encode_batch") /\ last.ret = 1) =>
        LET row(i) == EncodeItem(LastSession, LastStrings[i]).vec
        IN  last.data = ConcatVecs(row, Len(last.args), 1)

\* C2: if any item of a batch fails (tokenization, inference or extraction of the
\* output) the call returns false, writes neither out-parameter and hands over
\* no buffer.
C2_ItemFailureReturnsFalse ==
    (Ended("encode_batch") /\ \E k \in 1..Len(last.results) : last.results[k].kind # "ok")
        => (last.status = "returned" /\ last.ret = 0 /\ NoWrites)

\* What the code does keep of C2: an item whose closure returned Err makes a
\* call that returns at all return false with nothing written.
BatchErrReturnsFalse ==
    (Returned("encode_batch") /\ \E k \in 1..Len(last.results) : last.results[k].kind = "err")
        => (last.ret = 0 /\ NoWrites)

\* C3: embeddings_encode_batch returns the concatenation, in input order, of the
\* vectors embeddings_encode returns for the same texts on the same session.
C3_BatchEqualsSingles ==
    (Returned("encode_batch") /\ last.ret = 1) =>
        /\ \A i \in 1..Len(last.args) :
              EncodeSingle(LastSession, LastStrings[i]).kind = "ok"
        /\ LET single(i) == EncodeSingle(LastSession, LastStrings[i]).vec
           IN  last.data = ConcatVecs(single, Len(last.args), 1)

\* C4: a call given a null handle, a null text, a null texts array or a null
\* element of it returns its failure sentinel and writes neither out-parameter.
C4_NullArgsRejected ==
    /\ (Ended("init") /\ (last.args[1].kind = "null" \/ last.args[2].kind = "null"))
          => (last.status = "returned" /\ last.ret = NullHandle /\ NoWrites)
    /\ (last.op = "encode" /\ (last.handle = NullHandle \/ last.args[1].kind = "null"))
          => (last.status = "returned" /\ last.ret = 0 /\ NoWrites)
    /\ (last.op = "encode_batch"
          /\ (last.handle = NullHandle \/ last.args_null \/ HasNullText(last.args)))
          => (last.status = "returned" /\ last.ret = 0 /\ NoWrites /\ last.results = <<>>)
    /\ (last.op = "get_dimension" /\ last.handle = NullHandle)
          => (last.status = "returned" /\ last.ret = 0 /\ NoWrites)

\* a batch on a live session whose second pointer is null, after a valid first one
C4_Witness ==
    /\ Returned("encode_batch")
    /\ last.handle # NullHandle /\ ~last.args_null /\ ~last.out_null /\ ~last.len_null
    /\ Len(last.args) = 2
    /\ last.args[1].kind = "str" /\ last.args[2].kind = "null"
    /\ last.ret = 0

\* C5: every failure inside embeddings_encode or embeddings_encode_batch ends in
\* the return value false; no execution ends in a panic.
C5_NoPanic == last.status # "panic"

\* C6: a successful embeddings_encode writes a length equal to
\* embeddings_get_dimension(session), a successful embeddings_encode_batch of n
\* texts writes n times that.
C6_LengthIsEmbeddingDim ==
    /\ (Returned("encode") /\ last.ret = 1) => last.len = LastSession.embedding_dim
    /\ (Returned("encode_batch") /\ last.ret = 1)
          => last.len = Len(last.args) * LastSession.embedding_dim

\* What the code does keep of C3: the two paths agree whenever the model emits
\* as many sequence positions as it was given.
BatchEqualsSinglesOnMatchingShape ==
    (Returned("encode_batch") /\ last.ret = 1 /\ LastSession.model.static_seq < 0) =>
        LET single(i) == EncodeSingle(LastSession, LastStrings[i]).vec
        IN  last.data = ConcatVecs(single, Len(last.args), 1)

\* What the code does keep of C6: the length written is the number of floats
\* handed over, n times the hidden size of the model's output.
LengthIsModelHidden ==
    /\ (Returned("encode") /\ last.ret = 1) => last.len = LastSession.model.hidden
    /\ (Returned("encode_batch") /\ last.ret = 1)
          => last.len = Len(last.args) * LastSession.model.hidden

\* C7: buffer accounting. The live buffers are exactly the (pointer, length)
\* pairs handed to the host and not yet released, each with its exact length; a
\* call that returned true handed over exactly the buffer it reports, a call that
\* did not return true handed over none; once the host holds nothing, nothing
\* is live.
HeldLive == {b \in held : b.len > 0}
C7_BufferAccounting ==
    /\ \A a \in BufAddrs :
          heap[a] > 0 <=> [ptr |-> a, len |-> heap[a]] \in held
    /\ \A b \in held :
          IF b.len > 0 THEN b.ptr \in BufAddrs /\ heap[b.ptr] = b.len
                       ELSE b.ptr = DanglingBuf
    /\ Cardinality(HeldLive) = Cardinality({a \in BufAddrs : heap[a] > 0})
    /\ (last.op \in {"encode", "encode_batch"} /\ last.status = "returned" /\ last.ret = 1)
          => /\ last.ptr_written /\ last.len_written
             /\ last.len = Len(last.data)
             /\ [ptr |-> last.ptr, len |-> last.len] \in held
    /\ (last.op \in {"encode", "encode_batch"} /\ last.ret # 1) => NoWrites
    /\ held = {} => \A a \in BufAddrs : heap[a] = 0

\* the host released, with its exact length, the buffer a call had handed it,
\* and holds nothing more
C7_Witness ==
    /\ Returned("free_result")
    /\ last.free_ptr \in BufAddrs /\ last.free_len > 0
    /\ held = {}
    /\ heap[last.free_ptr] = 0

\* C8: embeddings_free_result with a null pointer or with length 0 frees
\* nothing and leaves every live buffer and every session unchanged.
C8_FreeResultNoOp ==
    [][(last'.op = "free_result" /\ last.status = "none"
          /\ (last'.free_ptr = NullBuf \/ last'.free_len = 0))
        => (heap' = heap /\ sessions' = sessions /\ res' = res)]_vars

\* the pointer of a live buffer was passed with length 0 and the buffer is live
C8_Witness ==
    /\ Returned("free_result")
    /\ last.free_ptr \in BufAddrs /\ last.free_len = 0
    /\ heap[last.free_ptr] > 0
    /\ LiveHandles # {}

\* C9: embeddings_init returns a non-null handle exactly when path decoding,
\* tokenizer load, model load and pool creation all succeeded; when it returns
\* null nothing it acquired stays allocated and no session is reachable.
InitStepsOk ==
    /\ to_str(last.args[1]).ok /\ to_str(last.args[2]).ok
    /\ tokenizer_from_file(last.args[2].s).ok
    /\ model_for_path(last.args[1].s).ok
    /\ last.pool_ok
C9_InitAllOrNothing ==
    Returned("init") =>
        /\ last.ret # NullHandle <=> InitStepsOk
        /\ last.ret # NullHandle =>
              /\ sessions[last.ret].live
              /\ sessions[last.ret].pool = num_threads
              /\ res = [tokenizers |-> 1, models |-> 1, pools |-> 1,
                        threads |-> num_threads, boxes |-> 1]
        /\ last.ret = NullHandle => (LiveHandles = {} /\ res = NoRes)

\* the tokenizer loaded, then the model failed to load
C9_Witness ==
    /\ Returned("init")
    /\ last.args[2] = GoodTokenizerPath /\ last.args[1] = MissingPath
    /\ last.ret = NullHandle

\* C10: what the library holds is what its live sessions own; with no live
\* session, after any number of init/free cycles and the calls between them,
\* no session, model, tokenizer, pool or pool thread is left.
RECURSIVE SumOwned(_)
SumOwned(H) ==
    IF H = {} THEN NoRes
    ELSE LET a == CHOOSE x \in H : TRUE
         IN  AddRes(Owned(sessions[a]), SumOwned(H \ {a}))
C10_NoLeakAcrossCycles ==
    /\ res = SumOwned(LiveHandles)
    /\ LiveHandles = {} => res = NoRes

\* a session that served a successful encode was freed, its buffer still held
C10_Witness ==
    /\ Returned("free")
    /\ last.handle # NullHandle
    /\ LiveHandles = {}
    /\ held # {}
    /\ res = NoRes

\* C11: on both paths the ids, the attention mask and the type ids handed to the
\* model each have length min(raw_len, 512) and are the first min(raw_len, 512)
\* elements of the tokenizer's sequences; the two paths truncate the same text
\* to the same three sequences.
ProbeEncoding == tokenizer_encode(TheTokenizer, probe.text)
IsPrefix(v, raw, n) == Len(v) = n /\ \A k \in 1..n : v[k] = raw[k]
C11_TruncationFirst512 ==
    probe.stage \in {"inputs", "pooled", "done"} =>
        LET raw == ProbeEncoding
            n == IF Len(raw.ids) < 512 THEN Len(raw.ids) ELSE 512
            single == SingleInputs(raw)
            item == BatchInputs(raw)
        IN  /\ probe.ok
            /\ IsPrefix(probe.ids, raw.ids, n)
            /\ IsPrefix(probe.attention_mask, raw.attention_mask, n)
            /\ IsPrefix(probe.type_ids, raw.type_ids, n)
            /\ single.ok /\ item.ok
            /\ single.ids = item.ids
            /\ single.attention_mask = item.attention_mask
            /\ single.type_ids = item.type_ids

\* a text of more than 512 tokens reached the model, cut to 512, on the single path
C11_Witness ==
    /\ probe.stage = "pooled"
    /\ probe.path = "single"
    /\ Len(probe.text) > 512
    /\ Len(probe.ids) = 512
    /\ probe.ids[512] = probe.text[512]

\* C12: every vector a successful embeddings_encode returns, and every row of a
\* successful embeddings_encode_batch, has Euclidean norm 1 within tolerance, or
\* is the pooled vector unscaled because the pooled norm was below 1e-12.
\* The tolerance allows the rounding of each component at the resolution Scale.
Abs(x) == IF x < 0 THEN -x ELSE x
IsUnit(vec) ==
    LET norm == Norm(vec)
    IN  norm # NaN /\ Abs(norm - Scale) <= Len(vec) + 1
BelowEpsilon(norm) == norm # NaN /\ norm <= NORM_EPSILON
UnitOrDegenerate(vec, pooled) ==
    IsUnit(vec) \/ (vec = pooled /\ BelowEpsilon(Norm(pooled)))
BatchRow(i) ==
    LET width == Len(last.data) \div Len(last.args)
    IN  SubSeq(last.data, (i - 1) * width + 1, i * width)
C12_UnitNormOrDegenerate ==
    /\ (Returned("encode") /\ last.ret = 1) =>
          UnitOrDegenerate(last.data, PoolSingle(LastSession, LastStrings[1]).vec)
    /\ (Returned("encode_batch") /\ last.ret = 1) =>
          \A i \in 1..Len(last.args) :
              UnitOrDegenerate(BatchRow(i), PoolItem(LastSession, LastStrings[i]).vec)

\* What the code does keep of C12: a returned vector has norm 1, or is the pooled
\* vector unscaled because the pooled norm was not greater than 1e-12, which
\* includes a norm that is not a number.
UnitOrNotGreater(vec, pooled) ==
    IsUnit(vec) \/ (vec = pooled /\ ~FGreater(Norm(pooled), NORM_EPSILON))
UnitNormOrNotGreater ==
    /\ (Returned("encode") /\ last.ret = 1) =>
          UnitOrNotGreater(last.data, PoolSingle(LastSession, LastStrings[1]).vec)
    /\ (Returned("encode_batch") /\ last.ret = 1) =>
          \A i \in 1..Len(last.args) :
              UnitOrNotGreater(BatchRow(i), PoolItem(LastSession, LastStrings[i]).vec)

\* C13: embeddings_get_dimension returns 0 for a null handle and, for a live
\* session, the embedding_dim embeddings_init fixed; that value is the same
\* after any sequence of encode, encode_batch and free_result calls.
C13_DimensionFixed ==
    /\ \A a \in LiveHandles : sessions[a].embedding_dim = embedding_dim
    /\ last.op = "get_dimension" =>
          /\ last.status = "returned"
          /\ NoWrites
          /\ last.ret = IF last.handle = NullHandle THEN 0 ELSE embedding_dim

\* the dimension was asked of a session that had served an encode on a model
\* whose hidden size is not embedding_dim, the buffer still held
C13_Witness ==
    /\ Returned("get_dimension")
    /\ last.handle \in LiveHandles
    /\ LastSession.model.hidden = SmallDim
    /\ \E b \in held : b.len = SmallDim
    /\ last.ret = embedding_dim

\* C14: validation of every text pointer precedes dispatch. If any element of
\* the texts array is null or is not valid UTF-8, embeddings_encode_batch
\* returns false before any item is tokenized or run: nothing of that batch is
\* ever on the worker pool and no item has a result.
HasInvalidText(texts) == \E k \in 1..Len(texts) : texts[k].kind # "str"
C14_ValidationBeforeDispatch ==
    /\ (last.op = "encode_batch" /\ HasInvalidText(last.args)) =>
          /\ last.status = "returned"
          /\ last.ret = 0
          /\ last.results = <<>>
          /\ ~batch.active
    /\ batch.active =>
          /\ last.op = "encode_batch"
          /\ Len(batch.strings) = Len(last.args)
          /\ \A k \in 1..Len(last.args) :
                last.args[k].kind = "str" /\ batch.strings[k] = last.args[k].s

\* a batch whose first text is valid and whose second is not valid UTF-8
C14_Witness ==
    /\ Returned("encode_batch")
    /\ last.handle \in LiveHandles /\ ~last.args_null /\ ~last.out_null /\ ~last.len_null
    /\ Len(last.args) = 2
    /\ last.args[1] = Str(<<1>>) /\ last.args[2].kind = "badutf8"
    /\ last.ret = 0
    /\ last.results = <<>>

\* C15: a dispatched batch has no cancellation. The call ends only when every
\* item has been run to completion by a worker, also when another item has
\* already failed; a call that returns has a result, success or error, for
\* every item, and a failure shows only in the collection step.
EveryItemCompleted(call, n) ==
    /\ Len(call.results) = n
    /\ \A k \in 1..n : call.results[k].kind \in {"ok", "err"}
C15_NoCancellation ==
    [][(batch.active /\ ~batch'.active) =>
          /\ \A k \in 1..Len(batch.items) : batch.items[k].st = "done"
          /\ last.status = "running"
          /\ last'.status = "returned" => EveryItemCompleted(last', Len(batch.items))]_vars

\* the first item has failed and the last item of the batch is still to be run
C15_Witness ==
    /\ batch.active
    /\ Len(batch.items) = PoolBatch
    /\ batch.items[1].st = "done" /\ batch.items[1].kind = "err"
    /\ batch.items[PoolBatch].st = "pending"
    /\ last.status = "running"

\* C16: at every moment of an embeddings_encode_batch call at most 2 items of
\* the batch are being processed, the session's pool having exactly 2 workers
\* whatever the batch size; embeddings_encode runs on its calling thread and
\* puts nothing on the pool.
C16_TwoWorkers ==
    [][/\ Cardinality({k \in 1..Len(batch'.items) : batch'.items[k].st = "running"}) <= 2
       /\ batch'.active => sessions'[batch'.handle].pool = 2
       /\ side'.op = "encode" /\ side.status = "none" => batch' = batch]_vars

\* two items of a batch of PoolBatch are on the pool, another waits, and the
\* second thread has an embeddings_encode result in hand
C16_Witness ==
    /\ batch.active
    /\ Len(batch.items) = PoolBatch
    /\ Cardinality(Running) = 2
    /\ \E k \in 1..Len(batch.items) : batch.items[k].st = "pending"
    /\ side.op = "encode" /\ side.status = "returned" /\ side.ret = 1

\* C17: liveness of a batch call. With the two workers scheduled fairly and
\* every tokenizer and model invocation returning, a dispatched
\* embeddings_encode_batch eventually returns, true or false; and while the
\* invocation of some item has not returned the call has not returned.
BatchRunning == last.op = "encode_batch" /\ last.status = "running"
C17_BatchEventuallyReturns ==
    /\ BatchRunning ~> (last.op = "encode_batch" /\ last.status = "returned")
    /\ []((batch.active /\ ~AllDone(batch.items)) => BatchRunning)

\* What the code does keep of C17: a dispatched batch eventually returns or
\* ends the process in a panic, and it does neither while an item is unfinished.
BatchEventuallyEnds ==
    /\ BatchRunning ~> ((last.op = "encode_batch" /\ last.status = "returned") \/ ~Alive)
    /\ []((batch.active /\ ~AllDone(batch.items)) => BatchRunning)

\* ---------------------------------------------------------------------- C18
\* the result of embeddings_encode on the session alone: Err for a text that is
\* not UTF-8, else the outcome of the single pipeline
AloneSingle(handle, text) ==
    IF to_str(text).ok THEN EncodeSingle(sessions[handle], to_str(text).s) ELSE Err

\* the call ended with outcome o
EndsWith(call, o) ==
    CASE o.kind = "ok" -> call.status = "returned" /\ call.ret = 1 /\ call.data = o.vec
      [] o.kind = "err" -> call.status = "returned" /\ call.ret = 0
      [] o.kind = "panic" -> call.status = "panic"

\* the results the items of the batch have when each is run alone
AloneItems(call) ==
    [k \in 1..Len(call.args) |->
        LET o == EncodeItem(sessions[call.handle], to_str(call.args[k]).s)
        IN  [kind |-> o.kind, vec |-> o.vec]]

\* C18: embeddings_encode and embeddings_encode_batch leave the session
\* unchanged (model, tokenizer, pool size, embedding_dim): only a call of
\* embeddings_init changes a session. The workers of a batch and a call running
\* on another thread on the same session share no mutable state: a call on the
\* second thread ends as it ends alone on the session, and a batch that ends
\* carries for every item the result the item has alone, whatever ran in between.
C18_SessionUnchangedResultsAsAlone ==
    [][/\ sessions' # sessions => (last'.op = "init" /\ last'.status = "returned")
       /\ (side.status = "none" /\ side'.status # "none") =>
              \E h \in LiveHandles, t \in SideTexts :
                 /\ side'.handle = h /\ side'.args = <<t>>
                 /\ EndsWith(side', AloneSingle(h, t))
       /\ (last.status = "running" /\ last'.status # "running") =>
              last'.results = AloneItems(last)
      ]_vars

\* a call of embeddings_encode has returned a vector on the second thread while
\* a batch on the same session has one item done and another inside a worker
C18_Witness ==
    /\ last.op = "encode_batch" /\ last.status = "running"
    /\ side.status = "returned" /\ side.ret = 1 /\ side.handle = last.handle
    /\ Running # {}
    /\ \E k \in 1..Len(batch.items) : batch.items[k].st = "done"

\* ---------------------------------------------------------------------- C19
\* what the model returns for the inputs of the request
ProbeOutputs ==
    model_run(ModelKinds[probe.model], probe.ids, probe.attention_mask, probe.type_ids)

\* the sum of output[0, i, j] over the positions i in lo..hi
RECURSIVE PositionSum(_, _, _, _)
PositionSum(output, j, lo, hi) ==
    IF hi < lo THEN 0
    ELSE IF hi = lo THEN output[lo][j]
    ELSE LET half == (hi - lo + 1) \div 2
         IN  FAdd(PositionSum(output, j, lo, lo + half - 1),
                  PositionSum(output, j, lo + half, hi))

\* C19: on both paths, when the model output is an f32 tensor of shape
\* (1, seq_len, dim) with seq_len the truncated token count of the request, the
\* pooling succeeds without an access outside the tensor, the pooled vector has
\* dim components, and component j is the sum of output[0, i, j] over all
\* seq_len positions i divided by seq_len.
C19_MeanPoolOverAllPositions ==
    probe.stage \in {"pooled", "done"} =>
        LET raw == ProbeEncoding
            seq_len == IF Len(raw.ids) < 512 THEN Len(raw.ids) ELSE 512
            output == ProbeOutputs
            dim == ModelKinds[probe.model].hidden
        IN  (output.ok /\ output.dtype = "f32" /\ output.shape = <<1, seq_len, dim>>) =>
                /\ probe.kind = "ok"
                /\ Len(probe.pooled) = dim
                /\ \A j \in 1..dim :
                      probe.pooled[j] =
                          FDiv(PositionSum(output.data, j, 1, seq_len), ToF32(seq_len))

\* a text of more than 512 tokens was pooled on the batch path over the 512
\* positions the model returned, with a mean that is not zero
C19_Witness ==
    /\ probe.stage = "pooled"
    /\ probe.path = "batch"
    /\ Len(probe.text) > 512
    /\ ProbeOutputs.shape = <<1, 512, SmallDim>>
    /\ probe.kind = "ok"
    /\ probe.pooled[1] # 0

\* ---------------------------------------------------------------------- C20
\* no result of the call holds a float
NoFloats(results) == \A k \in 1..Len(results) : results[k].vec = <<>>
AllOk(results) == \A k \in 1..Len(results) : results[k].kind = "ok"

\* C20: a call of embeddings_encode_batch that returns true has written a
\* buffer address and a length greater than 0, the number of floats handed
\* back; a call whose collected results are all Ok and hold no floats (no
\* texts at all, or every item an empty vector) returns false and writes
\* neither *embeddings_out nor *len_out.
C20_TrueReturnIsNonEmpty ==
    Returned("encode_batch") =>
        /\ last.ret = 1 =>
              /\ last.ptr_written /\ last.ptr \in BufAddrs
              /\ last.len_written /\ last.len > 0
              /\ Len(last.data) = last.len
        /\ (AllOk(last.results) /\ NoFloats(last.results)) =>
              (last.ret = 0 /\ NoWrites)

\* a batch of one or more texts went through the pool on a graph of hidden
\* size 0: every item is Ok with an empty vector, and the call returned false
C20_Witness ==
    /\ Returned("encode_batch")
    /\ Len(last.results) >= 1
    /\ Len(last.results) = Len(last.args)
    /\ AllOk(last.results) /\ NoFloats(last.results)
    /\ last.ret = 0

====
